---- MODULE Spec2Model ----
(***************************************************************************)
(* libintx: the owning buffer cuda::vector<T, memory_t> and the kernel     *)
(* dispatch make_ab_x_kernel of src/libintx/cuda/api/api.h.                *)
(*                                                                         *)
(* Two buffers "a" and "b" of one type vector<T, memory_t> live on a heap  *)
(* of raw blocks.  Storage is modelled at byte level: an element T is      *)
(* SizeofT bytes, a block of n elements is a sequence of n*SizeofT bytes.  *)
(* Every member function is one action; a member that calls other members  *)
(* (assign -> resize -> reserve) is the composition of their transformers. *)
(* Requested sizes stay far below the point where n*sizeof(T) would wrap   *)
(* around size_t.  Spec runs the buffers, SpecKernel one call of            *)
(* make_ab_x_kernel, SpecShared a shared array and its references,         *)
(* SpecStream one device buffer beside a stream of asynchronous fills.     *)
(***************************************************************************)
EXTENDS Integers, Sequences, FiniteSets, TLC

\* ------------------------------------------------------------------ bounds
MaxN == 2       \* largest element count a call requests
NumAddr == 3    \* distinct block addresses: one per buffer, one in transit
LMAX == 2       \* LIBINTX_MAX_L, the build's maximum angular momentum
XMAX == 3       \* LIBINTX_MAX_X, the build's maximum auxiliary angular momentum
SizeBits == 5   \* width of size_t, scaled down
IntBits == 4    \* width of int, scaled down (narrower than size_t)
MaxRefs == 4    \* references to one shared array held at a time
MaxPending == 1 \* operations enqueued on the stream and not yet executed

\* sizeof(T) of the element type the buffers are instantiated with
SizeofT == 1

\* The Memory Policy the buffers are instantiated with
memory_t == "device_memory_t"

\* The buffer never interprets a byte, it copies and fills: the zero byte
\* (what assign_zero fills) and one non-zero byte tell every outcome apart.
Byte == {0, 1}
Vec == {"a", "b"}
Policy == {"host_memory_t", "device_memory_t"}
Addr == 1..NumAddr
nullptr == 0

NoError == "none"
CapacityExceeded == "cuda::vector::capacity exceeded"
AllocationFailure == "AllocationFailure"

VARIABLES
  vec,        \* vec[v] = [size_, capacity_, data_] of buffer v
  heap,       \* heap[p] = the raw block at address p
  exc,        \* what the last member call threw (NoError: it returned)
  call,       \* the last make_ab_x_kernel call: its arguments and outcome
  alive,      \* the buffers constructed and not yet destroyed
  shared,     \* the shared array: its block, its references, the free calls
  stream      \* the stream: operations enqueued and not yet executed

vars == <<vec, heap, exc, call, alive, shared, stream>>

\* A block that is not allocated.
NoBlock == [live |-> FALSE, by |-> "none", bytes |-> <<>>]

\* The state a member function runs on, with the effects of the call so far:
\* blocks obtained from allocate, blocks passed to free, the exception thrown.
Start ==
  [vec |-> vec, heap |-> heap, allocs |-> {}, frees |-> {},
   exc |-> NoError, fault |-> FALSE]

\* No shared array made yet; nothing enqueued on the stream.  An operation
\* on the stream is [ptr, bytes, dangling]: the bytes to write at ptr, and
\* whether the block at ptr was released after the operation was enqueued.
NoShared ==
  [ptr |-> nullptr, by |-> "none", deleter |-> "none", made |-> FALSE,
   refs |-> {}, frees |-> <<>>]
NoStream == [pending |-> <<>>, hazard |-> FALSE]

\* The stream after the blocks in frees were released: an operation enqueued
\* on one of them and not yet executed now refers to released storage.
Released(st, frees) ==
  [st EXCEPT !.pending =
     [i \in 1..Len(st.pending) |->
        IF st.pending[i].ptr \in frees /\ st.pending[i].bytes # <<>>
        THEN [st.pending[i] EXCEPT !.dangling = TRUE]
        ELSE st.pending[i]]]

\* --------------------------------------------------------- Memory Policy

\* M::allocate(bytes), M one of the two policies: a fresh block with unspecified content at the
\* lowest free address, or AllocationFailure.
M_allocate(M, m, nbytes) ==
  LET p == CHOOSE a \in Addr :
             /\ ~m.heap[a].live
             /\ \A b \in Addr : ~m.heap[b].live => a <= b
  IN  {[m |-> [m EXCEPT !.exc = AllocationFailure], ptr |-> nullptr]}
      \cup
      {[m |-> [m EXCEPT !.heap[p] = [live |-> TRUE, by |-> M, bytes |-> c],
                        !.allocs = @ \cup {p}],
        ptr |-> p] : c \in [1..nbytes -> Byte]}

policy_allocate(m, nbytes) == M_allocate(memory_t, m, nbytes)

\* M::free(ptr): releases a live block of this policy and does
\* nothing on null; anything else (a block already released, a block of the
\* other policy) is a fault.  frees records every argument, null included.
M_free(M, m, p) ==
  IF p = nullptr THEN [m EXCEPT !.frees = @ \cup {nullptr}]
  ELSE IF m.heap[p].live /\ m.heap[p].by = M
       THEN [m EXCEPT !.heap[p] = NoBlock, !.frees = @ \cup {p}]
       ELSE [m EXCEPT !.fault = TRUE]

policy_free(m, p) == M_free(memory_t, m, p)

\* memory_t::memset(dst, value, bytes): bytes [0, bytes) of the block := value.
policy_memset(m, dst, value, nbytes) ==
  IF nbytes = 0 THEN m
  ELSE IF dst = nullptr \/ ~m.heap[dst].live \/ nbytes > Len(m.heap[dst].bytes)
       THEN [m EXCEPT !.fault = TRUE]
       ELSE [m EXCEPT !.heap[dst].bytes =
               [i \in 1..Len(@) |-> IF i <= nbytes THEN value ELSE @[i]]]

\* memcpy(dst, src, bytes): bytes [0, bytes) of the block := src[0, bytes),
\* whichever address spaces dst and src lie in.  src = [space, bytes] is
\* memory outside the heap of the buffers.
memcpy(m, dst, src, nbytes) ==
  IF nbytes = 0 THEN m
  ELSE IF \/ dst = nullptr \/ ~m.heap[dst].live
          \/ nbytes > Len(m.heap[dst].bytes) \/ nbytes > Len(src.bytes)
       THEN [m EXCEPT !.fault = TRUE]
       ELSE [m EXCEPT !.heap[dst].bytes =
               [i \in 1..Len(@) |-> IF i <= nbytes THEN src.bytes[i] ELSE @[i]]]

\* What reading nbytes at address p of the heap yields: the bytes of the
\* block when p is a live block that long; otherwise (a released block, a
\* range past the end of the block, null) the read is undefined and may
\* yield any bytes.
Fetch(m, p, nbytes) ==
  IF p # nullptr /\ m.heap[p].live /\ nbytes <= Len(m.heap[p].bytes)
  THEN {[defined |-> TRUE, bytes |-> SubSeq(m.heap[p].bytes, 1, nbytes)]}
  ELSE {[defined |-> FALSE, bytes |-> c] : c \in [1..nbytes -> Byte]}

\* memcpy(dst, src, bytes) with src an address of the heap.
memcpy_ptr(m, dst, src, nbytes) ==
  IF nbytes = 0 THEN {m}
  ELSE {[memcpy(m, dst, [space |-> memory_t, bytes |-> f.bytes], nbytes)
           EXCEPT !.fault = @ \/ ~f.defined]
        : f \in Fetch(m, src, nbytes)}

\* detail::allocate<T, memory_t>(n)
allocate(m, n) == policy_allocate(m, n * SizeofT)

\* ------------------------------------------------------------- vector

\* vector(): size_ = 0, capacity_ = 0, data_(nullptr, &memory_t::free)
vector == [size_ |-> 0, capacity_ |-> 0, data_ |-> nullptr]

\* data_.reset(p): own p, then pass the block owned before (if any) to the
\* deleter &memory_t::free.
data_reset(m, v, p) ==
  LET old == m.vec[v].data_
      m1 == [m EXCEPT !.vec[v].data_ = p]
  IN  IF old = nullptr THEN m1 ELSE policy_free(m1, old)

\* Mutant of reserve: reallocates already when size == capacity_ (>= for >).
reserve_at_capacity(m, v, size) ==
  IF size >= m.vec[v].capacity_ /\ size > 0
  THEN {IF r.m.exc # NoError THEN r.m
        ELSE [data_reset(r.m, v, r.ptr) EXCEPT !.vec[v].capacity_ = size]
        : r \in allocate(m, size)}
  ELSE {m}

\* Mutant of reserve: reallocates whenever size differs from capacity_
\* (!= for >), so a smaller request shrinks the buffer.
reserve_shrinks(m, v, size) ==
  IF size # m.vec[v].capacity_
  THEN {IF r.m.exc # NoError THEN r.m
        ELSE [data_reset(r.m, v, r.ptr) EXCEPT !.vec[v].capacity_ = size]
        : r \in allocate(m, size)}
  ELSE {m}

\* Mutant of reserve: releases the old block before allocating the new one.
reserve_release_first(m, v, size) ==
  IF size > m.vec[v].capacity_
  THEN {IF r.m.exc # NoError THEN r.m
        ELSE [r.m EXCEPT !.vec[v].data_ = r.ptr, !.vec[v].capacity_ = size]
        : r \in allocate(data_reset(m, v, nullptr), size)}
  ELSE {m}

\* Mutant of reserve: copy-on-grow, the size_ stored elements are copied
\* into the new block before the old one is released.
reserve_copy_on_grow(m, v, size) ==
  IF size > m.vec[v].capacity_
  THEN {IF r.m.exc # NoError THEN r.m
        ELSE [data_reset(
                memcpy(r.m, r.ptr,
                       [space |-> memory_t,
                        bytes |-> IF m.vec[v].data_ = nullptr THEN <<>>
                                  ELSE m.heap[m.vec[v].data_].bytes],
                       m.vec[v].size_ * SizeofT),
                v, r.ptr) EXCEPT !.vec[v].capacity_ = size]
        : r \in allocate(m, size)}
  ELSE {m}

reserve(m, v, size) ==
  IF size > m.vec[v].capacity_
  THEN {IF r.m.exc # NoError THEN r.m
        ELSE [data_reset(r.m, v, r.ptr) EXCEPT !.vec[v].capacity_ = size]
        : r \in allocate(m, size)}
  ELSE {m}

\* Mutant of resize: sets size_ without calling reserve.
resize_without_reserve(m, v, size) == {[m EXCEPT !.vec[v].size_ = size]}

\* Mutant of resize: replaces the storage also when size == capacity_.
resize_replaces(m, v, size) ==
  {IF s.exc # NoError THEN s ELSE [s EXCEPT !.vec[v].size_ = size]
   : s \in reserve_at_capacity(m, v, size)}

resize(m, v, size) ==
  {IF s.exc # NoError THEN s ELSE [s EXCEPT !.vec[v].size_ = size]
   : s \in reserve(m, v, size)}

\* Mutant of memset: fills the whole storage (capacity_ for size_).
memset_capacity(m, v, value) ==
  policy_memset(m, m.vec[v].data_, value, SizeofT * m.vec[v].capacity_)

\* this->memset(value)
memset(m, v, value) ==
  policy_memset(m, m.vec[v].data_, value, SizeofT * m.vec[v].size_)

\* memset(vector<T,M> &v, char value), the free function
memset_vector(m, v, value) ==
  policy_memset(m, m.vec[v].data_, value, SizeofT * m.vec[v].size_)

\* Mutant of assign: copies into the storage before resize replaces it.
assign_copy_first(m, v, data, size) ==
  {IF s.exc # NoError THEN s ELSE [s EXCEPT !.fault = FALSE]
   : s \in resize(memcpy(m, m.vec[v].data_, data, SizeofT * size), v, size)}

assign(m, v, data, size) ==
  {IF s.exc # NoError THEN s
   ELSE memcpy(s, s.vec[v].data_, data, SizeofT * size)
   : s \in resize(m, v, size)}

\* assign(data, size) with data an address of the heap: storage of a buffer.
assign_ptr(m, v, data, size) ==
  UNION {IF s.exc # NoError THEN {s}
         ELSE memcpy_ptr(s, s.vec[v].data_, data, SizeofT * size)
         : s \in resize(m, v, size)}

assign_zero(m, v, size) ==
  {IF s.exc # NoError THEN s ELSE memset(s, v, 0) : s \in resize(m, v, size)}

\* Mutant of clear: releases the storage as well.
clear_and_release(m, v) ==
  [data_reset(m, v, nullptr) EXCEPT !.vec[v].size_ = 0, !.vec[v].capacity_ = 0]

clear(m, v) == [m EXCEPT !.vec[v].size_ = 0]

\* data_[idx] = x: the SizeofT bytes of element idx
store(m, p, idx, x) ==
  IF p = nullptr \/ ~m.heap[p].live \/ (idx + 1) * SizeofT > Len(m.heap[p].bytes)
  THEN [m EXCEPT !.fault = TRUE]
  ELSE [m EXCEPT !.heap[p].bytes =
          [i \in 1..Len(@) |->
             IF i > idx * SizeofT /\ i <= (idx + 1) * SizeofT
             THEN x[i - idx * SizeofT] ELSE @[i]]]

\* Mutant of push_back: the capacity test is off by one (size() > capacity_).
push_back_off_by_one(m, v, x) ==
  IF m.vec[v].size_ > m.vec[v].capacity_
  THEN [m EXCEPT !.exc = CapacityExceeded]
  ELSE [store(m, m.vec[v].data_, m.vec[v].size_, x)
          EXCEPT !.vec[v].size_ = @ + 1]

\* Mutant of push_back: increments before it writes (data_[++size_] = v).
push_back_preincrement(m, v, x) ==
  IF m.vec[v].size_ + 1 > m.vec[v].capacity_
  THEN [m EXCEPT !.exc = CapacityExceeded]
  ELSE [store(m, m.vec[v].data_, m.vec[v].size_ + 1, x)
          EXCEPT !.vec[v].size_ = @ + 1]

push_back(m, v, x) ==
  IF m.vec[v].size_ + 1 > m.vec[v].capacity_
  THEN [m EXCEPT !.exc = CapacityExceeded]
  ELSE [store(m, m.vec[v].data_, m.vec[v].size_, x)
          EXCEPT !.vec[v].size_ = @ + 1]

\* Mutant of swap: rhs takes over data_ of this buffer, which keeps it too.
swap_shares_storage(m, v, rhs) ==
  [m EXCEPT !.vec[v].size_ = m.vec[rhs].size_,
            !.vec[v].capacity_ = m.vec[rhs].capacity_,
            !.vec[rhs] = m.vec[v]]

\* Mutant of swap: capacity_ is not exchanged.
swap_without_capacity(m, v, rhs) ==
  [m EXCEPT !.vec[v].size_ = m.vec[rhs].size_,
            !.vec[v].data_ = m.vec[rhs].data_,
            !.vec[rhs].size_ = m.vec[v].size_,
            !.vec[rhs].data_ = m.vec[v].data_]

swap(m, v, rhs) ==
  [m EXCEPT !.vec[v] = m.vec[rhs], !.vec[rhs] = m.vec[v]]

\* ~vector(): the destructor of data_ passes the block it owns (if any) to
\* the deleter.  A buffer that is not alive is kept as vector.
destroy(m, v) ==
  LET old == m.vec[v].data_
      m1 == [m EXCEPT !.vec[v] = vector]
  IN  IF old = nullptr THEN m1 ELSE policy_free(m1, old)

\* A constructor body that throws after vector() completed: the destructor
\* runs and the buffer does not come to life.
Unwind(s, v) == IF s.exc # NoError THEN destroy(s, v) ELSE s

\* explicit vector(size_t size) : vector() { resize(size); }
vector_size(m, v, size) ==
  {Unwind(s, v) : s \in resize([m EXCEPT !.vec[v] = vector], v, size)}

\* vector(const T *data, size_t size) with data an address of the heap.
vector_ptr(m, v, data, size) ==
  {Unwind(s, v) : s \in assign_ptr([m EXCEPT !.vec[v] = vector], v, data, size)}

\* Mutant of vector_from: sized by the capacity of the source.
vector_from_capacity(m, v, src) ==
  vector_ptr(m, v, m.vec[src].data_, m.vec[src].capacity_)

\* template<typename M> vector(const vector<T,M> &v)
\*   : vector(v.data(), v.size()) {}
\* Buffer src stands for the buffer of the other policy: the constructor
\* uses its data() and size() only, and memcpy bridges the address spaces.
vector_from(m, v, src) ==
  vector_ptr(m, v, m.vec[src].data_, m.vec[src].size_)

\* vector(const T *data, size_t size) : vector() { assign(data, size); }
vector_data(m, v, data, size) ==
  {Unwind(s, v) : s \in assign([m EXCEPT !.vec[v] = vector], v, data, size)}

\* ------------------------------------------------------ kernel dispatch

\* The states of make_ab_x_kernel: what f was called with, how the call
\* ended (return, throw, abort on a failed assert) and with what.
NoKernel == [null |-> TRUE, AB |-> 0, X |-> 0]
NoCalls == <<>>
Idle(ndebug) ==
  [NDEBUG |-> ndebug, f |-> "f_constructs", AB |-> 0, X |-> 0, outcome |-> "idle",
   kernel |-> NoKernel, what |-> <<>>, fcalls |-> NoCalls]

\* size_t and int, at widths scaled down from 64 and 32 bits
SizeT == 0..(2 ^ SizeBits - 1)
IntMax == 2 ^ (IntBits - 1) - 1

\* The conversion of a size_t argument to the int parameter of
\* parameters_exceed_max_am(int AB, int X): modulo 2^IntBits, signed.
ToInt(n) ==
  LET r == n % (2 ^ IntBits)
  IN  IF r > IntMax THEN r - 2 ^ IntBits ELSE r

Digit == <<"0", "1", "2", "3", "4", "5", "6", "7", "8", "9">>

\* std::to_string(int): the decimal digits, after "-" for a negative value.
RECURSIVE Digits(_)
Digits(n) ==
  IF n < 10 THEN <<Digit[n + 1]>>
  ELSE Append(Digits(n \div 10), Digit[(n % 10) + 1])

to_string(n) == IF n < 0 THEN <<"-">> \o Digits(0 - n) ELSE Digits(n)

\* parameters_exceed_max_am(AB, X).what(), piece by piece
parameters_exceed_max_am(AB, X) ==
  <<"Parameters", " AB=">> \o to_string(ToInt(AB))
    \o <<" X=">> \o to_string(ToInt(X))
    \o <<"exceed ", "LIBINTX_MAX_L=">> \o to_string(LMAX)
    \o <<" ", "LIBINTX_MAX_X=">> \o to_string(XMAX)

\* The constructor functions f a caller passes: f(AB, X) constructs the
\* kernel of the constants (AB, X), or returns a null kernel.
F == {"f_constructs", "f_null", "f_null_where_AB_exceeds_X"}

ApplyF(f, ab, x) ==
  IF f = "f_null" \/ (f = "f_null_where_AB_exceeds_X" /\ ab > x)
  THEN NoKernel
  ELSE [null |-> FALSE, AB |-> ab, X |-> x]

\* Mutant of Factory: the closure passes its constants to f in the other order.
Factory_swapped(ab, x) == [AB |-> x, X |-> ab]

\* [f,AB,X](){ return f(AB,X); }: the closure, as the constants it captured
Factory(ab, x) == [AB |-> ab, X |-> x]

\* make_array<Factory>(g, index_sequence<ABs...>, index_sequence<Xs...>):
\* table[AB][X] = g(AB, X)
make_array(nAB, nX) ==
  [ab \in 0..(nAB - 1) |-> [x \in 0..(nX - 1) |-> Factory(ab, x)]]

\* Invoking a factory calls f once with the captured constants.
Invoke(c, factory) ==
  [c EXCEPT !.fcalls = Append(@, <<factory.AB, factory.X>>),
            !.kernel = ApplyF(c.f, factory.AB, factory.X)]

Throw(c, AB, X) ==
  [c EXCEPT !.outcome = "throw", !.kernel = NoKernel,
            !.what = parameters_exceed_max_am(AB, X)]

\* make_ab_x_kernel(f, AB, X, index_sequence<ABs...>, index_sequence<Xs...>)
make_ab_x_kernel_table(c, AB, X, nAB, nX) ==
  LET kernel_table == make_array(nAB, nX)
  IN  IF AB < nAB /\ X < nX
      THEN Invoke(c, kernel_table[AB][X])
      ELSE Throw(c, AB, X)

\* Mutant of make_ab_x_kernel: returns what the table call gave, untested.
make_ab_x_kernel_untested(c, AB, X) ==
  LET k == make_ab_x_kernel_table(c, AB, X, LMAX * 2 + 1, XMAX + 1)
  IN  IF k.outcome = "throw" THEN k ELSE [k EXCEPT !.outcome = "return"]

\* make_ab_x_kernel(f, AB, X)
make_ab_x_kernel(c, AB, X) ==
  LET k == make_ab_x_kernel_table(c, AB, X, LMAX * 2 + 1, XMAX + 1)
  IN  IF k.outcome = "throw" THEN k
      ELSE IF k.kernel.null /\ ~c.NDEBUG THEN [k EXCEPT !.outcome = "abort"]
      ELSE IF k.kernel.null THEN Throw(k, AB, X)
      ELSE [k EXCEPT !.outcome = "return"]

\* One call of make_ab_x_kernel(f, AB, X) with the arguments drawn at Init.
MakeAbXKernel ==
  /\ call.outcome = "idle"
  /\ call' = make_ab_x_kernel(call, call.AB, call.X)
  /\ UNCHANGED <<vec, heap, exc, alive, shared, stream>>

InitKernel ==
  /\ vec = [v \in Vec |-> vector]
  /\ heap = [p \in Addr |-> NoBlock]
  /\ exc = NoError
  /\ call \in {[Idle(ndebug) EXCEPT !.f = f, !.AB = AB, !.X = X] :
                ndebug \in BOOLEAN, f \in F, AB \in SizeT, X \in SizeT}
  /\ alive = Vec
  /\ shared = NoShared
  /\ stream = NoStream

NextKernel == MakeAbXKernel

SpecKernel == InitKernel /\ [][NextKernel]_vars

\* ------------------------------------------------------------- actions

Elem == [1..SizeofT -> Byte]

\* The memory a caller can pass to assign: n elements in either address space.
Source(n) ==
  {[space |-> sp, bytes |-> b] : sp \in Policy, b \in [1..n * SizeofT -> Byte]}

\* The call returns or throws: the buffers and the heap are as the member
\* function left them.
Effects(s) ==
  /\ vec' = s.vec
  /\ heap' = s.heap
  /\ exc' = s.exc
  /\ stream' = Released(stream, s.frees)
  /\ UNCHANGED <<call, shared>>

Commit(s) == Effects(s) /\ UNCHANGED alive

Init ==
  /\ vec = [v \in Vec |-> vector]
  /\ heap = [p \in Addr |-> NoBlock]
  /\ exc = NoError
  /\ call = Idle(TRUE)
  /\ alive = Vec
  /\ shared = NoShared
  /\ stream = NoStream

Reserve ==
  \E v \in alive, n \in 0..MaxN : \E s \in reserve(Start, v, n) : Commit(s)

Resize ==
  \E v \in alive, n \in 0..MaxN : \E s \in resize(Start, v, n) : Commit(s)

Assign ==
  \E v \in alive, n \in 0..MaxN : \E data \in Source(n) :
    \E s \in assign(Start, v, data, n) : Commit(s)

AssignZero ==
  \E v \in alive, n \in 0..MaxN : \E s \in assign_zero(Start, v, n) : Commit(s)

Memset ==
  \E v \in alive, value \in Byte : Commit(memset(Start, v, value))

MemsetVector ==
  \E v \in alive, value \in Byte : Commit(memset_vector(Start, v, value))

Clear ==
  \E v \in alive : \E s \in {clear(Start, v)} : Commit(s)

PushBack ==
  \E v \in alive, x \in Elem : \E s \in {push_back(Start, v, x)} : Commit(s)

Swap ==
  \E v \in alive, rhs \in alive : \E s \in {swap(Start, v, rhs)} : Commit(s)

\* ~vector()
Destroy ==
  \E v \in alive :
    /\ Effects(destroy(Start, v))
    /\ alive' = alive \ {v}

\* A constructor: the buffer comes to life unless the constructor throws.
Constructed(s, v) ==
  /\ Effects(s)
  /\ alive' = IF s.exc = NoError THEN alive \cup {v} ELSE alive

\* vector()
Construct ==
  \E v \in Vec \ alive : Constructed([Start EXCEPT !.vec[v] = vector], v)

\* vector(size)
ConstructSize ==
  \E v \in Vec \ alive, n \in 0..MaxN :
    \E s \in vector_size(Start, v, n) : Constructed(s, v)

\* vector(data, size)
ConstructData ==
  \E v \in Vec \ alive, n \in 0..MaxN : \E data \in Source(n) :
    \E s \in vector_data(Start, v, data, n) : Constructed(s, v)

\* vector(v) from a buffer of the other policy
ConstructFrom ==
  \E v \in Vec \ alive, src \in alive :
    \E s \in vector_from(Start, v, src) : Constructed(s, v)

\* assign(data, size) from storage of a buffer: size elements that the
\* block at data holds.
AssignFrom ==
  \E v \in alive, src \in alive, n \in 0..MaxN :
    /\ n <= vec[src].capacity_
    /\ \E s \in assign_ptr(Start, v, vec[src].data_, n) : Commit(s)

Next ==
  \/ Reserve
  \/ Resize
  \/ Assign
  \/ AssignZero
  \/ Memset
  \/ MemsetVector
  \/ Clear
  \/ PushBack
  \/ Swap

Spec == Init /\ [][Next]_vars

\* The buffers come to life and die along the run as well.
InitLifetime ==
  /\ vec = [v \in Vec |-> vector]
  /\ heap = [p \in Addr |-> NoBlock]
  /\ exc = NoError
  /\ call = Idle(TRUE)
  /\ alive = {}
  /\ shared = NoShared
  /\ stream = NoStream

NextLifetime ==
  \/ Construct
  \/ ConstructSize
  \/ ConstructData
  \/ ConstructFrom
  \/ Destroy
  \/ Reserve
  \/ Resize
  \/ Assign
  \/ AssignFrom
  \/ AssignZero
  \/ Memset
  \/ MemsetVector
  \/ Clear
  \/ PushBack
  \/ Swap

SpecLifetime == InitLifetime /\ [][NextLifetime]_vars

\* The representation is well formed: a buffer owns a live block of exactly
\* capacity_ elements, or no block when capacity_ is 0.
WellFormed ==
  \A v \in Vec :
    /\ vec[v].size_ \in 0..MaxN
    /\ vec[v].capacity_ \in 0..MaxN
    /\ IF vec[v].capacity_ = 0 THEN vec[v].data_ = nullptr
       ELSE /\ vec[v].data_ \in Addr
            /\ heap[vec[v].data_].live
            /\ Len(heap[vec[v].data_].bytes) = vec[v].capacity_ * SizeofT

\* ------------------------------------------------------- shared array

\* Mutant of make_shared: the deleter is the free of the other policy.
make_shared_other_deleter(M, m, n) ==
  {[m |-> r.m,
    sh |-> IF r.m.exc # NoError THEN NoShared
           ELSE [ptr |-> r.ptr, by |-> M,
                 deleter |-> CHOOSE D \in Policy : D # M,
                 made |-> TRUE, refs |-> {1}, frees |-> <<>>]]
   : r \in M_allocate(M, m, n * SizeofT)}

\* detail::make_shared<T[], M>(n): allocate<element_type, M>(n), then
\* std::shared_ptr<T>(ptr, &M::free), the first reference to the block.  When
\* allocate throws no shared array is made.
make_shared(M, m, n) ==
  {[m |-> r.m,
    sh |-> IF r.m.exc # NoError THEN NoShared
           ELSE [ptr |-> r.ptr, by |-> M, deleter |-> M,
                 made |-> TRUE, refs |-> {1}, frees |-> <<>>]]
   : r \in M_allocate(M, m, n * SizeofT)}

\* A copy of the shared_ptr: one more reference, j.
copy_ref(sh, j) == [sh EXCEPT !.refs = @ \cup {j}]

\* A reference is dropped; the last one passes ptr to the deleter.  frees
\* records each call of the deleter: its argument and whether it released a
\* live block of the deleter's policy.
drop_ref(sh, m, i) ==
  LET left == sh.refs \ {i}
      m1 == M_free(sh.deleter, m, sh.ptr)
  IN  IF left # {} THEN [m |-> m, sh |-> [sh EXCEPT !.refs = left]]
      ELSE [m |-> m1,
            sh |-> [sh EXCEPT !.refs = left,
                      !.frees = Append(@, [ptr |-> sh.ptr, ok |-> ~m1.fault])]]

Ref == 1..MaxRefs

\* host::make_shared<T>(n), device::make_shared<T>(n)
MakeShared ==
  /\ shared.refs = {}
  /\ \E M \in Policy, n \in 0..MaxN : \E r \in make_shared(M, Start, n) :
       /\ heap' = r.m.heap
       /\ exc' = r.m.exc
       /\ shared' = IF r.m.exc # NoError THEN shared ELSE r.sh
  /\ UNCHANGED <<vec, call, alive, stream>>

CopyRef ==
  /\ \E i \in shared.refs, j \in Ref \ shared.refs : shared' = copy_ref(shared, j)
  /\ UNCHANGED <<vec, heap, exc, call, alive, stream>>

DropRef ==
  /\ \E i \in shared.refs :
       LET r == drop_ref(shared, Start, i)
       IN  shared' = r.sh /\ heap' = r.m.heap
  /\ UNCHANGED <<vec, exc, call, alive, stream>>

InitShared ==
  /\ vec = [v \in Vec |-> vector]
  /\ heap = [p \in Addr |-> NoBlock]
  /\ exc = NoError
  /\ call = Idle(TRUE)
  /\ alive = {}
  /\ shared = NoShared
  /\ stream = NoStream

NextShared ==
  \/ MakeShared
  \/ CopyRef
  \/ DropRef

SpecShared == InitShared /\ [][NextShared]_vars

\* ------------------------------------------------------------- stream

\* Mutant of memset_stream: nothing is enqueued on the stream.
memset_stream_enqueues_nothing(st, m, v, value) == st

\* memset(vector<T,device_memory_t> &v, const char value, Stream &stream):
\* device_memory_t::memset(v.data(), value, sizeof(T)*v.size(), stream)
\* enqueues the fill on the stream and returns.
memset_stream(st, m, v, value) ==
  [st EXCEPT !.pending =
     Append(@, [ptr |-> m.vec[v].data_,
                bytes |-> [i \in 1..SizeofT * m.vec[v].size_ |-> value],
                dangling |-> FALSE])]

\* copy(begin, end, it, stream): memcpy(it, begin, sizeof(T)*(end-begin),
\* stream) enqueues the copy on the stream and returns.
copy_stream(st, begin, it) ==
  [st EXCEPT !.pending =
     Append(@, [ptr |-> it, bytes |-> begin.bytes, dangling |-> FALSE])]

\* The device executes an operation of the stream.  On a block released
\* since the operation was enqueued the write is undefined: it is lost, or
\* it lands in the block that lives at that address by now.
execute(op, m) ==
  LET write == memcpy(m, op.ptr, [space |-> memory_t, bytes |-> op.bytes],
                      Len(op.bytes))
  IN  IF op.bytes = <<>> THEN {m}
      ELSE IF ~op.dangling THEN {write}
      ELSE {[m EXCEPT !.fault = TRUE], [write EXCEPT !.fault = TRUE]}

RECURSIVE Drain(_, _)
Drain(ops, S) ==
  IF ops = <<>> THEN S
  ELSE Drain(Tail(ops), UNION {execute(Head(ops), s) : s \in S})

\* device::synchronize(): returns when every operation enqueued before the
\* call has been executed.
synchronize(st, m) ==
  {[m |-> s, st |-> [pending |-> <<>>, hazard |-> st.hazard \/ s.fault]]
   : s \in Drain(st.pending, {m})}

MemsetStream ==
  /\ Len(stream.pending) < MaxPending
  /\ \E v \in alive, value \in Byte :
       stream' = memset_stream(stream, Start, v, value)
  /\ UNCHANGED <<vec, heap, exc, call, alive, shared>>

CopyStream ==
  /\ Len(stream.pending) < MaxPending
  /\ \E v \in alive, n \in 1..MaxN : \E begin \in Source(n) :
       /\ n <= vec[v].capacity_
       /\ stream' = copy_stream(stream, begin, vec[v].data_)
  /\ UNCHANGED <<vec, heap, exc, call, alive, shared>>

\* The device executes the oldest operation of the stream.
Execute ==
  /\ stream.pending # <<>>
  /\ \E s \in execute(Head(stream.pending), Start) :
       /\ heap' = s.heap
       /\ stream' = [pending |-> Tail(stream.pending),
                     hazard |-> stream.hazard \/ s.fault]
  /\ UNCHANGED <<vec, exc, call, alive, shared>>

Synchronize ==
  /\ \E r \in synchronize(stream, Start) :
       heap' = r.m.heap /\ stream' = r.st
  /\ UNCHANGED <<vec, exc, call, alive, shared>>

\* One device buffer, constructed empty, and the stream.
InitStream ==
  /\ vec = [v \in Vec |-> vector]
  /\ heap = [p \in Addr |-> NoBlock]
  /\ exc = NoError
  /\ call = Idle(TRUE)
  /\ alive = {"a"}
  /\ shared = NoShared
  /\ stream = NoStream

NextStream ==
  \/ MemsetStream
  \/ CopyStream
  \/ Execute
  \/ Synchronize
  \/ Reserve
  \/ Resize
  \/ Assign
  \/ Destroy

SpecStream == InitStream /\ [][NextStream]_vars

\* ---------------------------------------------------------- properties

\* Bytes [0, n*SizeofT) of the block at p, as the caller reads n elements.
Read(h, p, n) == IF n = 0 THEN <<>> ELSE SubSeq(h[p].bytes, 1, n * SizeofT)

Max(x, y) == IF x >= y THEN x ELSE y

\* The call made no allocate and no free call and touched no byte of the heap.
NoPolicyCall(m) ==
  m.allocs = {} /\ m.frees = {} /\ m.heap = heap /\ ~m.fault

\* C1: in every reachable state, size <= capacity for each buffer.
C1_SizeLeCapacity ==
  \A v \in Vec : vec[v].size_ <= vec[v].capacity_

\* A buffer grown and filled to its capacity beside one that is partly filled,
\* after a push_back was refused.
C1_Witness ==
  /\ exc = CapacityExceeded
  /\ \E v, w \in Vec :
       /\ vec[v].size_ = vec[v].capacity_ /\ vec[v].capacity_ = MaxN
       /\ 0 < vec[w].size_ /\ vec[w].size_ < vec[w].capacity_

\* C2: push_back on a buffer with size == capacity (capacity 0 included)
\* throws CapacityExceeded and leaves size, capacity, the storage block and
\* every stored byte as they were.
C2_PushBackFullFails ==
  \A v \in Vec, x \in Elem :
    vec[v].size_ = vec[v].capacity_ =>
      LET r == push_back(Start, v, x)
      IN  /\ r.exc = CapacityExceeded
          /\ r.vec = vec
          /\ NoPolicyCall(r)

\* A push_back has just been refused; one buffer is default-constructed
\* (capacity 0, no storage), the other is full with a non-zero element.
C2_Witness ==
  /\ exc = CapacityExceeded
  /\ \E v, w \in Vec :
       /\ vec[v].capacity_ = 0 /\ vec[v].data_ = nullptr
       /\ vec[w].size_ = vec[w].capacity_ /\ vec[w].capacity_ > 0
       /\ \E i \in 1..vec[w].size_ * SizeofT : heap[vec[w].data_].bytes[i] # 0

\* C3: push_back(x) with size < capacity returns, writes x at index old size
\* and adds one to size; no push_back, returning or throwing, changes the
\* capacity, the storage block, a byte outside element old-size, or the
\* other buffer.
C3_PushBackAppends ==
  \A v \in Vec, x \in Elem :
    LET r == push_back(Start, v, x)
        n == vec[v].size_
        p == vec[v].data_
    IN  /\ vec[v].size_ < vec[v].capacity_ =>
             /\ r.exc = NoError
             /\ r.vec[v].size_ = n + 1
             /\ SubSeq(r.heap[p].bytes, n * SizeofT + 1, (n + 1) * SizeofT) = x
        /\ r.vec[v].capacity_ = vec[v].capacity_
        /\ r.vec[v].data_ = p
        /\ \A w \in Vec \ {v} : r.vec[w] = vec[w]
        /\ r.allocs = {} /\ r.frees = {} /\ ~r.fault
        /\ \A q \in Addr :
             /\ r.heap[q].live = heap[q].live
             /\ Len(r.heap[q].bytes) = Len(heap[q].bytes)
             /\ \A i \in 1..Len(heap[q].bytes) :
                  (q # p \/ i <= n * SizeofT \/ i > (n + 1) * SizeofT)
                    => r.heap[q].bytes[i] = heap[q].bytes[i]

\* A push_back can append a second element that differs from the first one.
C3_Witness ==
  \E v \in Vec, x \in Elem :
    /\ vec[v].size_ = 1 /\ vec[v].capacity_ >= 2
    /\ Read(heap, vec[v].data_, 1) # x
    /\ push_back(Start, v, x).vec[v].size_ = 2
    /\ exc = NoError

\* C4: whenever resize(n) returns, size == n and capacity == max(old
\* capacity, n); with n <= old capacity it changes size alone and calls
\* neither allocate nor free.
C4_Resize ==
  \A v \in Vec, n \in 0..MaxN : \A s \in resize(Start, v, n) :
    s.exc = NoError =>
      /\ s.vec[v].size_ = n
      /\ s.vec[v].capacity_ >= n
      /\ s.vec[v].capacity_ = Max(vec[v].capacity_, n)
      /\ \A w \in Vec \ {v} : s.vec[w] = vec[w]
      /\ n <= vec[v].capacity_ =>
           /\ s.vec[v].data_ = vec[v].data_
           /\ NoPolicyCall(s)

\* A buffer where resize can shrink the size in place and can also grow past
\* the capacity.
C4_Witness ==
  \E v \in Vec :
    /\ vec[v].size_ = 1 /\ vec[v].capacity_ = 1 /\ MaxN > 1
    /\ \E s \in resize(Start, v, MaxN) :
         s.exc = NoError /\ s.vec[v].data_ # vec[v].data_
    /\ \E s \in resize(Start, v, 0) : s.vec[v].size_ = 0

\* Every outcome of a member call other than swap on buffer v, with any
\* arguments, returning or throwing.
NonSwapOutcomes(v) ==
  UNION {reserve(Start, v, n) \cup resize(Start, v, n)
           \cup assign_zero(Start, v, n)
           \cup UNION {assign(Start, v, d, n) : d \in Source(n)}
         : n \in 0..MaxN}
  \cup {clear(Start, v)}
  \cup {push_back(Start, v, x) : x \in Elem}

\* reserve(n1); reserve(n2) with n1 <= n2, both returning, ends with
\* capacity >= n2; and no outcome of reserve, resize, assign, assign_zero,
\* clear or push_back lowers the capacity of any buffer.
C5_ReserveNeverShrinks ==
  /\ \A v \in Vec, n1 \in 0..MaxN, n2 \in 0..MaxN :
       n1 <= n2 =>
         \A s1 \in reserve(Start, v, n1) : \A s2 \in reserve(s1, v, n2) :
           (s1.exc = NoError /\ s2.exc = NoError) =>
             /\ s1.vec[v].capacity_ >= n1
             /\ s2.vec[v].capacity_ >= n2
             /\ s2.vec[v].capacity_ >= s1.vec[v].capacity_
  /\ \A v \in Vec : \A s \in NonSwapOutcomes(v) :
       \A w \in Vec : s.vec[w].capacity_ >= vec[w].capacity_

\* C5: reserve never shrinks capacity; along every run the capacity of each
\* buffer is non-decreasing for as long as the buffer lives, except in a step
\* that is a swap.
C5_CapacityMonotone ==
  /\ []C5_ReserveNeverShrinks
  /\ [][ \/ \A v \in alive \cap alive' :
              vec'[v].capacity_ >= vec[v].capacity_
         \/ \E v, rhs \in Vec :
              /\ vec' = swap(Start, v, rhs).vec
              /\ heap' = heap ]_vars

\* One buffer without storage, where reserve(1); reserve(MaxN) grows twice,
\* beside a buffer of capacity MaxN, whose capacity a swap lowers.
C5_Witness ==
  \E v, w \in Vec :
    /\ vec[v].capacity_ = 0 /\ vec[w].capacity_ = MaxN
    /\ swap(Start, w, v).vec[w].capacity_ < vec[w].capacity_
    /\ \E s1 \in reserve(Start, v, 1) : \E s2 \in reserve(s1, v, MaxN) :
         /\ s1.vec[v].capacity_ = 1 /\ s2.vec[v].capacity_ = MaxN
         /\ s2.frees = {s1.vec[v].data_}

\* C6: whenever assign(data, n) returns, size == n and the first n elements
\* of the storage equal the n source elements byte for byte, whatever the
\* prior size, capacity and contents and whichever address space the source
\* lies in (the policy's own or the other one).
C6_AssignRoundTrip ==
  \A v \in Vec, n \in 0..MaxN : \A data \in Source(n) :
    \A s \in assign(Start, v, data, n) :
      s.exc = NoError =>
        /\ ~s.fault
        /\ s.vec[v].size_ = n
        /\ Read(s.heap, s.vec[v].data_, s.vec[v].size_) = data.bytes

\* A buffer holding one element in storage of one element, to which a longer
\* source from the other address space is assigned: the storage is replaced
\* and reads back the source.
C6_Witness ==
  \E v \in Vec : \E data \in Source(MaxN) :
    /\ vec[v].size_ = 1 /\ vec[v].capacity_ = 1
    /\ Read(heap, vec[v].data_, 1) # SubSeq(data.bytes, 1, SizeofT)
    /\ data.space # memory_t
    /\ \E i \in 1..MaxN * SizeofT : data.bytes[i] # 0
    /\ \E s \in assign(Start, v, data, MaxN) :
         /\ s.exc = NoError
         /\ s.vec[v].data_ # vec[v].data_
         /\ Read(s.heap, s.vec[v].data_, MaxN) = data.bytes

\* C7: swap exchanges size, capacity and storage of the two buffers, calls
\* neither allocate nor free and touches no byte, and a second swap restores
\* both buffers and the heap.
C7_SwapInvolution ==
  \A v \in Vec, rhs \in Vec :
    LET s == swap(Start, v, rhs)
        t == swap(s, v, rhs)
    IN  /\ s.vec[v] = vec[rhs]
        /\ s.vec[rhs] = vec[v]
        /\ s.exc = NoError
        /\ NoPolicyCall(s)
        /\ t.vec = vec
        /\ NoPolicyCall(t)

\* Two buffers that differ in size, capacity, storage and contents.
C7_Witness ==
  \E v, rhs \in Vec :
    /\ vec[v].size_ # vec[rhs].size_
    /\ vec[v].capacity_ # vec[rhs].capacity_
    /\ vec[v].data_ # nullptr /\ vec[rhs].data_ # nullptr
    /\ vec[v].size_ > 0 /\ vec[rhs].size_ > 0
    /\ Read(heap, vec[v].data_, 1) # Read(heap, vec[rhs].data_, 1)
    /\ swap(Start, v, rhs).vec # vec

\* The state after push_back of xs[1], ..., xs[k] in turn.
RECURSIVE Pushes(_, _, _, _)
Pushes(m, v, xs, k) ==
  IF k = 0 THEN m ELSE push_back(Pushes(m, v, xs, k - 1), v, xs[k])

\* From state m with k - 1 elements pushed: push_back of xs[k], ..., xs[cap]
\* each returns and adds one element, and push_back of xs[cap + 1] throws
\* CapacityExceeded and adds none.
RECURSIVE FillsExactly(_, _, _, _, _)
FillsExactly(m, v, xs, k, cap) ==
  LET p == push_back(m, v, xs[k])
  IN  IF k > cap
      THEN p.exc = CapacityExceeded /\ p.vec[v].size_ = cap
      ELSE /\ p.exc = NoError
           /\ p.vec[v].size_ = k
           /\ FillsExactly(p, v, xs, k + 1, cap)

\* C8: clear() sets size to 0 and leaves capacity, storage block and bytes
\* untouched, with no allocate or free call; after it exactly capacity
\* push_back calls in a row succeed and the next one throws CapacityExceeded.
C8_ClearKeepsStorage ==
  \A v \in Vec :
    LET c == clear(Start, v)
        cap == vec[v].capacity_
    IN  /\ c.vec[v].size_ = 0
        /\ c.vec[v].capacity_ = cap
        /\ c.vec[v].data_ = vec[v].data_
        /\ \A w \in Vec \ {v} : c.vec[w] = vec[w]
        /\ c.exc = NoError
        /\ NoPolicyCall(c)
        /\ \A xs \in [1..cap + 1 -> Elem] : FillsExactly(c, v, xs, 1, cap)

\* A full buffer of MaxN elements, where push_back is refused; after clear
\* MaxN push_back calls refill it.
C8_Witness ==
  \E v \in Vec :
    /\ vec[v].size_ = MaxN /\ vec[v].capacity_ = MaxN
    /\ exc = CapacityExceeded
    /\ \E xs \in [1..MaxN -> Elem] :
         LET p == Pushes(clear(Start, v), v, xs, MaxN)
         IN  /\ p.exc = NoError /\ p.vec[v].size_ = MaxN
             /\ p.heap # heap

\* What a reader of the message finds after `key`: the decimal number there.
IsDigit(s) == \E i \in 1..10 : Digit[i] = s
DigitValue(s) == (CHOOSE i \in 1..10 : Digit[i] = s) - 1

RECURSIVE ParseDigits(_, _, _)
ParseDigits(what, i, acc) ==
  IF i > Len(what) \/ ~IsDigit(what[i]) THEN acc
  ELSE ParseDigits(what, i + 1, acc * 10 + DigitValue(what[i]))

Reported(what, key) ==
  LET i == CHOOSE j \in 1..Len(what) : what[j] = key
  IN  IF what[i + 1] = "-" THEN 0 - ParseDigits(what, i + 2, 0)
      ELSE ParseDigits(what, i + 1, 0)

Called == call.outcome # "idle"
InRange == call.AB <= 2 * LMAX /\ call.X <= XMAX

C10_OutOfRangeThrows ==
  (Called /\ ~InRange) =>
    /\ call.outcome = "throw"
    /\ call.kernel.null
    /\ call.fcalls = <<>>
    /\ Reported(call.what, " AB=") = call.AB
    /\ Reported(call.what, " X=") = call.X
    /\ Reported(call.what, "LIBINTX_MAX_L=") = LMAX
    /\ Reported(call.what, "LIBINTX_MAX_X=") = XMAX

\* What does hold of the code for C10: the throw, with f not invoked, for
\* every out-of-range request; the message carries the request converted to
\* int, which is the request when AB and X are at most INT_MAX.
C10_ThrowsReportingInt ==
  (Called /\ ~InRange) =>
    /\ call.outcome = "throw"
    /\ call.kernel.null
    /\ call.fcalls = <<>>
    /\ Reported(call.what, " AB=") = ToInt(call.AB)
    /\ Reported(call.what, " X=") = ToInt(call.X)
    /\ (call.AB <= IntMax => Reported(call.what, " AB=") = call.AB)
    /\ (call.X <= IntMax => Reported(call.what, " X=") = call.X)
    /\ Reported(call.what, "LIBINTX_MAX_L=") = LMAX
    /\ Reported(call.what, "LIBINTX_MAX_X=") = XMAX

\* C16: the public make_ab_x_kernel never returns a null kernel.  When f
\* produces a null kernel for an in-range pair the call does not return: with
\* assertions disabled it throws parameters_exceed_max_am, whose message
\* carries AB, X, LMAX and XMAX; with assertions enabled assert(kernel) fails.
C16_NeverReturnsNull ==
  Called =>
    /\ call.outcome = "return" => ~call.kernel.null
    /\ (InRange /\ ApplyF(call.f, call.AB, call.X).null) =>
         /\ call.fcalls = <<<<call.AB, call.X>>>>
         /\ call.outcome # "return"
         /\ call.NDEBUG =>
              /\ call.outcome = "throw"
              /\ call.what = parameters_exceed_max_am(call.AB, call.X)
              /\ Reported(call.what, " AB=") = call.AB
              /\ Reported(call.what, " X=") = call.X
              /\ Reported(call.what, "LIBINTX_MAX_L=") = LMAX
              /\ Reported(call.what, "LIBINTX_MAX_X=") = XMAX
         /\ ~call.NDEBUG => call.outcome = "abort"

\* With assertions disabled, f was invoked for an in-range pair, produced a
\* null kernel, and the call threw.
C16_Witness ==
  /\ Called /\ InRange /\ call.NDEBUG
  /\ call.fcalls = <<<<call.AB, call.X>>>>
  /\ ApplyF(call.f, call.AB, call.X).null
  /\ call.outcome = "throw"

\* C11: a shared array made by make_shared<T>(n) is freed exactly once through
\* the policy that allocated it: while a reference is held the deleter has
\* not been called and the block is live; once the last reference is dropped
\* the deleter has been called exactly once, on the allocated block, and it
\* released that block through the allocating policy.
C11_SharedFreedOnce ==
  shared.made =>
    /\ shared.refs # {} =>
         /\ shared.frees = <<>>
         /\ heap[shared.ptr].live /\ heap[shared.ptr].by = shared.by
    /\ shared.refs = {} =>
         /\ shared.frees = <<[ptr |-> shared.ptr, ok |-> TRUE]>>
         /\ \A p \in Addr : ~heap[p].live

\* The last reference to a device array has been dropped.
C11_Witness ==
  /\ shared.made /\ shared.refs = {} /\ Len(shared.frees) = 1
  /\ shared.by = "device_memory_t"


\* The blocks the living buffers own.
Owned(vs, live) == {vs[w].data_ : w \in live} \ {nullptr}

\* The calls of free in outcome s of a member call on buffer v are sound:
\* each released a live block of the policy, none was on null, each was on
\* the block v owned before the call, and no living buffer owns it after.
SoundFrees(s, v, live) ==
  /\ ~s.fault
  /\ nullptr \notin s.frees
  /\ s.frees \subseteq {vec[v].data_}
  /\ s.frees \cap Owned(s.vec, live) = {}
  /\ s.allocs \subseteq Owned(s.vec, live)

\* Outcome s of a member call on the living buffer v: its calls of free are
\* sound, and it calls free only when it returns with a larger capacity.
SoundCall(s, v) ==
  /\ SoundFrees(s, v, alive)
  /\ s.frees # {} => s.exc = NoError /\ s.vec[v].capacity_ > vec[v].capacity_

\* C12: storage is exclusively owned.  No block is owned by two living
\* buffers; the live blocks are exactly the blocks the living buffers own, so
\* each block obtained from allocate is released once and only once; a
\* member call passes to free only the block its buffer owned, only in a
\* growing reserve (also inside resize, assign, assign_zero) or in the
\* destructor, never a block a living buffer still owns and never null.
C12_ExclusiveOwnership ==
  /\ \A v \in alive, w \in alive :
       (v # w /\ vec[v].data_ # nullptr) => vec[v].data_ # vec[w].data_
  /\ \A p \in Addr : heap[p].live <=> p \in Owned(vec, alive)
  /\ \A v \in Vec \ alive : vec[v] = vector
  /\ \A v \in alive :
       /\ \A n \in 0..MaxN :
            /\ \A s \in reserve(Start, v, n) : SoundCall(s, v)
            /\ \A s \in resize(Start, v, n) : SoundCall(s, v)
            /\ \A s \in assign_zero(Start, v, n) : SoundCall(s, v)
            /\ \A d \in Source(n) :
                 \A s \in assign(Start, v, d, n) : SoundCall(s, v)
       /\ SoundCall(clear(Start, v), v)
       /\ \A x \in Elem : SoundCall(push_back(Start, v, x), v)
       /\ \A rhs \in alive :
            LET s == swap(Start, v, rhs)
            IN  SoundFrees(s, v, alive) /\ s.frees = {} /\ s.allocs = {}
       /\ LET s == destroy(Start, v)
          IN  /\ SoundFrees(s, v, alive \ {v})
              /\ s.frees = {vec[v].data_} \ {nullptr}

\* Two living buffers with a block each: a growing reserve of one releases
\* its block, a swap exchanges the blocks, the destructor releases one.
C12_Witness ==
  \E v \in alive, w \in alive :
    /\ v # w /\ vec[v].data_ # nullptr /\ vec[w].data_ # nullptr
    /\ \E s \in reserve(Start, v, MaxN) : s.frees = {vec[v].data_}
    /\ swap(Start, v, w).vec[w].data_ = vec[v].data_
    /\ destroy(Start, w).frees = {vec[w].data_}

\* C13: reserve(n) with n > capacity that returns has allocated one block of
\* n elements, which the buffer now owns, and released the old block (if
\* any); capacity == n and size is unchanged; nothing is copied: the new
\* block holds whatever allocate returned, so every content is possible
\* among the outcomes whatever the buffer held before.  reserve(n) with
\* n <= capacity calls neither allocate nor free and changes nothing.
C13_ReserveReplaces ==
  \A v \in Vec, n \in 0..MaxN :
    LET old == vec[v]
        done == {s \in reserve(Start, v, n) : s.exc = NoError}
    IN  /\ n > old.capacity_ =>
             /\ \A s \in done :
                  /\ s.allocs = {s.vec[v].data_}
                  /\ s.vec[v].data_ # nullptr
                  /\ Len(s.heap[s.vec[v].data_].bytes) = n * SizeofT
                  /\ s.frees = {old.data_} \ {nullptr}
                  /\ old.data_ # nullptr => ~s.heap[old.data_].live
                  /\ s.vec[v].capacity_ = n
                  /\ s.vec[v].size_ = old.size_
                  /\ ~s.fault
             /\ {s.heap[s.vec[v].data_].bytes : s \in done}
                  = [1..n * SizeofT -> Byte]
        /\ n <= old.capacity_ => reserve(Start, v, n) = {Start}

\* A buffer holding an element in a block of its own, where reserve(MaxN)
\* grows and reserve(1) does not.
C13_Witness ==
  \E v \in alive :
    /\ vec[v].size_ = 1 /\ vec[v].capacity_ = 1 /\ MaxN > 1
    /\ \E s \in reserve(Start, v, MaxN) :
         /\ s.exc = NoError /\ s.frees = {vec[v].data_}
         /\ Read(s.heap, s.vec[v].data_, 1) # Read(heap, vec[v].data_, 1)
    /\ reserve(Start, v, 1) = {Start}

\* C14: construction from a buffer v of the other policy that returns gives
\* a buffer with size == v.size() and capacity == v.size(), whose first size
\* elements equal those of v; its storage is a block allocated by this call
\* (none when v is empty) and never that of v; the call frees nothing, and
\* size, capacity, storage and contents of v are as before.
C14_CrossPolicyConstruction ==
  \A w \in Vec \ alive, v \in alive : \A s \in vector_from(Start, w, v) :
    s.exc = NoError =>
      LET new == s.vec[w]
      IN  /\ ~s.fault
          /\ new.size_ = vec[v].size_
          /\ new.capacity_ = vec[v].size_
          /\ IF vec[v].size_ = 0
             THEN new.data_ = nullptr /\ s.allocs = {}
             ELSE /\ s.allocs = {new.data_}
                  /\ ~heap[new.data_].live
                  /\ new.data_ # vec[v].data_
          /\ Read(s.heap, new.data_, new.size_)
               = Read(heap, vec[v].data_, vec[v].size_)
          /\ s.frees = {}
          /\ s.vec[v] = vec[v]
          /\ \A p \in Addr : heap[p].live => s.heap[p] = heap[p]

\* A source holding one element, not zero, in storage of MaxN elements: the
\* buffer constructed from it has capacity 1.
C14_Witness ==
  \E w \in Vec \ alive, v \in alive :
    /\ vec[v].size_ = 1 /\ vec[v].capacity_ = MaxN /\ MaxN > 1
    /\ \E i \in 1..SizeofT : heap[vec[v].data_].bytes[i] # 0
    /\ \E s \in vector_from(Start, w, v) :
         /\ s.exc = NoError
         /\ s.vec[w].capacity_ = 1
         /\ Read(s.heap, s.vec[w].data_, 1) = Read(heap, vec[v].data_, 1)

\* Outcome s of a fill of buffer v with value covers exactly the elements
\* [0, size): every byte of theirs is value, the bytes of the elements in
\* [size, capacity) and every other block are as before, and so are size,
\* capacity and storage of every buffer; no allocate, no free.
FillsLogical(s, v, value) ==
  /\ ~s.fault /\ s.exc = NoError
  /\ s.vec = vec
  /\ s.allocs = {} /\ s.frees = {}
  /\ \A p \in Addr :
       IF p = vec[v].data_
       THEN /\ s.heap[p].live = heap[p].live
            /\ Len(s.heap[p].bytes) = Len(heap[p].bytes)
            /\ \A i \in 1..Len(heap[p].bytes) :
                 s.heap[p].bytes[i] =
                   IF i <= vec[v].size_ * SizeofT THEN value
                   ELSE heap[p].bytes[i]
       ELSE s.heap[p] = heap[p]

\* C15: fill covers exactly the logical elements.  When assign_zero(n)
\* returns, size == n and each byte of the n elements is zero; memset(value),
\* member or free function, sets exactly the bytes of elements [0, size) and
\* leaves size, capacity and the bytes of elements [size, capacity) alone.
C15_FillCoversLogical ==
  \A v \in Vec :
    /\ \A n \in 0..MaxN : \A s \in assign_zero(Start, v, n) :
         s.exc = NoError =>
           /\ ~s.fault
           /\ s.vec[v].size_ = n
           /\ \A i \in 1..n * SizeofT : s.heap[s.vec[v].data_].bytes[i] = 0
    /\ \A value \in Byte :
         /\ FillsLogical(memset(Start, v, value), v, value)
         /\ FillsLogical(memset_vector(Start, v, value), v, value)

\* A buffer of one element in storage of two, no byte of which is zero: the
\* fill with zero changes the element and leaves the byte past the size.
C15_Witness ==
  \E v \in alive :
    /\ vec[v].size_ = 1 /\ vec[v].capacity_ = 2
    /\ \A i \in 1..2 * SizeofT : heap[vec[v].data_].bytes[i] # 0
    /\ memset(Start, v, 0).heap[vec[v].data_].bytes
         = [i \in 1..2 * SizeofT |-> IF i <= SizeofT THEN 0 ELSE 1]
    /\ \E s \in assign_zero(Start, v, 2) :
         s.heap[vec[v].data_].bytes = [i \in 1..2 * SizeofT |-> 0]

\* C17: a step in which reserve(n), resize(n), assign(ptr, n) or
\* assign_zero(n) (or a constructor that calls them) throws AllocationFailure
\* surfaces the failure and leaves every buffer and the heap exactly as
\* before: same size, capacity and storage block, no block released or
\* allocated, same contents.
C17_FailureLeavesBuffer ==
  [][exc' = AllocationFailure =>
       /\ vec' = vec
       /\ heap' = heap
       /\ alive' = alive]_vars

\* A growing call on a buffer holding an element has thrown
\* AllocationFailure.
C17_Witness ==
  /\ exc = AllocationFailure
  /\ \E v \in alive :
       /\ vec[v].size_ = 1 /\ vec[v].capacity_ = 1 /\ heap[vec[v].data_].live
       /\ \E s \in resize(Start, v, MaxN) :
            s.exc = AllocationFailure /\ s.vec = vec /\ s.heap = heap

\* The states in which the memcpy of assign(data, size) on buffer v reads
\* its source: resize(size) has returned.
AtMemcpy(v, size) == {s \in resize(Start, v, size) : s.exc = NoError}

\* C18 as stated: assign(src, n) never copies from a released block, also
\* when src is the buffer's own storage and n > capacity: at the memcpy the
\* block src points into is live, the read is defined, and the buffer ends
\* with the elements the block held at the call.
C18_NeverCopiesFromReleased ==
  \A v \in alive, src \in alive, n \in 1..MaxN :
    vec[src].data_ # nullptr =>
      /\ \A s \in AtMemcpy(v, n) : s.heap[vec[src].data_].live
      /\ \A s \in assign_ptr(Start, v, vec[src].data_, n) :
           s.exc = NoError =>
             LET k == IF n <= vec[src].capacity_ THEN n ELSE vec[src].capacity_
             IN  /\ n <= vec[src].capacity_ => ~s.fault
                 /\ Read(s.heap, s.vec[v].data_, k)
                      = Read(heap, vec[src].data_, k)

\* C18, amended: assign(src, n) with the n source elements inside a block
\* that a buffer owns (n <= capacity of that buffer, which may be the
\* assigned buffer itself) copies from a live block and ends with size == n
\* and the n source elements; assign(src, n) with src the buffer's own
\* storage and n > capacity copies from the block that resize has released.
C18_CopiesFromLiveInRange ==
  \A v \in alive, src \in alive, n \in 1..MaxN :
    vec[src].data_ # nullptr =>
      /\ n <= vec[src].capacity_ =>
           /\ \A s \in AtMemcpy(v, n) : s.heap[vec[src].data_].live
           /\ \A s \in assign_ptr(Start, v, vec[src].data_, n) :
                s.exc = NoError =>
                  /\ ~s.fault
                  /\ s.vec[v].size_ = n
                  /\ Read(s.heap, s.vec[v].data_, n)
                       = Read(heap, vec[src].data_, n)
      /\ (v = src /\ n > vec[v].capacity_) =>
           /\ \A s \in AtMemcpy(v, n) : ~s.heap[vec[src].data_].live
           /\ \A s \in assign_ptr(Start, v, vec[src].data_, n) :
                s.exc = NoError => s.fault

\* A buffer assigned from its own storage within its capacity, and from the
\* larger storage of the other buffer, which makes it grow; the sources hold
\* bytes that are not zero.
C18_Witness ==
  \E v \in alive, w \in alive :
    /\ v # w
    /\ vec[v].size_ = 0 /\ vec[v].capacity_ = 1
    /\ vec[w].capacity_ = MaxN /\ MaxN > 1
    /\ \A i \in 1..SizeofT : heap[vec[v].data_].bytes[i] # 0
    /\ \A i \in 1..MaxN * SizeofT : heap[vec[w].data_].bytes[i] # 0
    /\ \E s \in assign_ptr(Start, v, vec[v].data_, 1) :
         s.exc = NoError /\ s.vec[v].size_ = 1 /\ s.heap = heap
    /\ \E s \in assign_ptr(Start, v, vec[w].data_, MaxN) :
         /\ s.exc = NoError /\ s.vec[v].data_ # vec[v].data_
         /\ Read(s.heap, s.vec[v].data_, MaxN) = Read(heap, vec[w].data_, MaxN)

\* The operations pending on the stream st that refer to released storage.
Dangling(st) == {i \in 1..Len(st.pending) : st.pending[i].dangling}

\* The outcomes of the calls on buffer v that can release its block, run on
\* state m: reserve(n), resize(n), assign(data, n) and the destructor.
Releasing(m, v) ==
  UNION {reserve(m, v, n) \cup resize(m, v, n)
           \cup UNION {assign(m, v, d, n) : d \in Source(n)}
         : n \in 0..MaxN}
  \cup {destroy(m, v)}

\* C19 as stated: the buffer never releases a block on which a
\* stream-qualified fill or copy is pending, and no pending operation
\* executes against freed storage.
C19_NeverReleasesWhilePending ==
  Dangling(stream) = {} /\ ~stream.hazard

\* C19, amended: an operation pending on the stream and not overtaken by a
\* release refers to a live block that a living buffer owns and that holds
\* the bytes it writes; after device::synchronize() nothing is pending, every
\* such operation has executed against live storage, and a reserve, resize,
\* assign or destruction that follows releases no block with an operation
\* pending.  Without the synchronize the buffer does not wait: a fill
\* enqueued on its block is left pending on released storage by a
\* reallocating reserve and by the destructor.
C19_ReleaseAfterSynchronize ==
  /\ \A i \in 1..Len(stream.pending) :
       LET op == stream.pending[i]
       IN  (~op.dangling /\ op.bytes # <<>>) =>
             /\ op.ptr \in Owned(vec, alive)
             /\ heap[op.ptr].live
             /\ Len(op.bytes) <= Len(heap[op.ptr].bytes)
  /\ Dangling(stream) = {} =>
       \A r \in synchronize(stream, Start) :
         /\ r.st.pending = <<>>
         /\ r.st.hazard = stream.hazard /\ ~r.m.fault
         /\ \A v \in alive : \A s \in Releasing(r.m, v) :
              Dangling(Released(r.st, s.frees)) = {}
  /\ \A v \in alive, value \in Byte :
       vec[v].size_ > 0 =>
         LET st == memset_stream(stream, Start, v, value)
             last == Len(st.pending)
         IN  /\ \A n \in 0..MaxN : \A s \in reserve(Start, v, n) :
                  (n > vec[v].capacity_ /\ s.exc = NoError) =>
                    last \in Dangling(Released(st, s.frees))
             /\ last \in Dangling(Released(st, destroy(Start, v).frees))

\* A fill and nothing else is pending on the block of a buffer that holds
\* an element and can grow; the block does not hold the value of the fill.
C19_Witness ==
  /\ Len(stream.pending) = 1 /\ ~stream.hazard
  /\ \E v \in alive :
       LET op == stream.pending[1]
       IN  /\ vec[v].size_ = 1 /\ vec[v].capacity_ = 1 /\ MaxN > 1
           /\ op.ptr = vec[v].data_ /\ ~op.dangling
           /\ Len(op.bytes) = SizeofT
           /\ op.bytes # heap[op.ptr].bytes
           /\ \A r \in synchronize(stream, Start) :
                r.m.heap[op.ptr].bytes = op.bytes

====
